---- MODULE Spec2Model ----
(***************************************************************************)
(* cuda-device-query: main.rs as a state machine.  The program is a single *)
(* linear procedure; its state is the position in main, its locals, and    *)
(* the ordered log of what it did (driver calls, stdout lines, stderr      *)
(* lines).  The CUDA driver is the environment: what hardware is attached, *)
(* which version it reports, and which of its entry points fail.           *)
(***************************************************************************)
EXTENDS Integers, Sequences, FiniteSets, TLC

\* ---- bounds of the model ------------------------------------------------
MaxDevices == 3
MaxFaults == 1
MaxMajor == 13
MaxMinor == 9
MaxVersion == 2099
\* Devices plus driver failures in one run.
MaxScenario == 4

VARIABLES
    gpus,         \* environment: the attached devices, ordinal d is gpus[d+1]
    true_ver,     \* environment: the version cuDriverGetVersion reports
    budget,       \* environment: how many more driver calls may fail
    pc,           \* position in main
    exit_status,  \* <<>> while running, <<code>> once the process has exited
    driver_ver,   \* main's local driver_ver
    dev_count,    \* main's local dev_count
    i,            \* the loop variable of `for i in 0..dev_count`
    devices,      \* main's local Vec of handles
    trace         \* every driver call, stdout line and stderr line, in order

vars == <<gpus, true_ver, budget, pc, exit_status, driver_ver, dev_count, i, devices, trace>>

\* exit_status while the process has not exited; <<code>> once it has.
Running == <<>>

\* Compiled for Linux: the #[cfg(target_os = "windows")] block is left out.
TargetWindows == FALSE

\* ---- events of the trace ------------------------------------------------
CallEv(fn, args, ok, ret) ==
    [ev |-> "call", what |-> fn, args |-> args, ok |-> ok, vals |-> ret]
OutEv(label, vals) ==
    [ev |-> "out", what |-> label, args |-> <<>>, ok |-> TRUE, vals |-> vals]
ErrEv(label, vals) ==
    [ev |-> "err", what |-> label, args |-> <<>>, ok |-> TRUE, vals |-> vals]

\* The fixed text of the lines outside the device sections.
NoDevicesLabel == "There are no available device(s) that support CUDA"
DetectedLabel == "Detected CUDA Capable device(s)"
MatrixTitle == "deviceQuery, Pair-to-Pair GPU Bandwidth Matrix (in GB/s)"
SummaryLabel == "deviceQuery, CUDA Driver ="
PassLabel == "Result = PASS"

\* ---- Result / Option ----------------------------------------------------
Ok(x) == [ok |-> TRUE, val |-> x]
Err == [ok |-> FALSE, val |-> -1]
Some(x) == [some |-> TRUE, val |-> x]
None == [some |-> FALSE, val |-> 0]

RECURSIVE ConcatFrom(_, _)
ConcatFrom(ss, k) ==
    IF k > Len(ss) THEN <<>> ELSE ss[k] \o ConcatFrom(ss, k + 1)

\* The sequences of ss, one after the other.
Concat(ss) ==
    ConcatFrom(ss, 1)

\* Subsets of S with at most k elements: the calls that fail in one step.
RECURSIVE FaultSets(_, _)
FaultSets(S, k) ==
    IF k <= 0 THEN {{}}
    ELSE LET prev == FaultSets(S, k - 1)
         IN  prev \cup {T \cup {x} : T \in prev, x \in S}

\* ---- pure functions of main.rs -------------------------------------------
\* The table as it stood before Blackwell: 10.x, 11.0 and 12.x unknown.
sm_to_cores_BeforeBlackwell(major, minor) ==
    CASE <<major, minor>> \in {<<3, 0>>, <<3, 2>>, <<3, 5>>, <<3, 7>>} -> Some(192)
      [] <<major, minor>> \in {<<5, 0>>, <<5, 2>>, <<5, 3>>} -> Some(128)
      [] <<major, minor>> \in {<<6, 0>>} -> Some(64)
      [] <<major, minor>> \in {<<6, 1>>, <<6, 2>>} -> Some(128)
      [] <<major, minor>> \in {<<7, 0>>, <<7, 2>>, <<7, 5>>} -> Some(64)
      [] <<major, minor>> \in {<<8, 0>>} -> Some(64)
      [] <<major, minor>> \in {<<8, 6>>, <<8, 7>>, <<8, 9>>} -> Some(128)
      [] <<major, minor>> \in {<<9, 0>>} -> Some(128)
      [] OTHER -> None

sm_to_cores(major, minor) ==
    CASE <<major, minor>> \in {<<3, 0>>, <<3, 2>>, <<3, 5>>, <<3, 7>>} -> Some(192)
      [] <<major, minor>> \in {<<5, 0>>, <<5, 2>>, <<5, 3>>} -> Some(128)
      [] <<major, minor>> \in {<<6, 0>>} -> Some(64)
      [] <<major, minor>> \in {<<6, 1>>, <<6, 2>>} -> Some(128)
      [] <<major, minor>> \in {<<7, 0>>, <<7, 2>>, <<7, 5>>} -> Some(64)
      [] <<major, minor>> \in {<<8, 0>>} -> Some(64)
      [] <<major, minor>> \in {<<8, 6>>, <<8, 7>>, <<8, 9>>} -> Some(128)
      [] <<major, minor>> \in {<<9, 0>>} -> Some(128)
      [] <<major, minor>> \in {<<10, 0>>, <<10, 1>>, <<10, 3>>} -> Some(128)
      [] <<major, minor>> \in {<<11, 0>>} -> Some(128)
      [] <<major, minor>> \in {<<12, 0>>, <<12, 1>>} -> Some(128)
      [] OTHER -> None

\* get_attribute(dev, a).unwrap_or(0)
attr(res) ==
    IF res.ok THEN res.val ELSE 0

\* r is what cuDriverGetVersion did; the function never returns Err.
driver_version(r) ==
    IF ~r.ok THEN Ok(0) ELSE Ok(r.val)

\* The check of can_access left out: result == CUDA_SUCCESS alone.
can_access_peer_ResultOnly(r) ==
    r.ok

\* result == CUDA_SUCCESS && can_access != 0
can_access_peer(r) ==
    r.ok /\ r.val # 0

compute_mode_str(mode) ==
    CASE mode = 0 -> "Default (multiple host threads can use ::cudaSetDevice() with device simultaneously)"
      [] mode = 1 -> "Exclusive (only one host thread in one process is able to use ::cudaSetDevice() with this device)"
      [] mode = 2 -> "Prohibited (no host thread can use ::cudaSetDevice() with this device)"
      [] mode = 3 -> "Exclusive Process (many threads in one process is able to use ::cudaSetDevice() with this device)"
      [] OTHER -> "Unknown"

\* The minor taken from the last two digits: (driver_ver % 100) / 10.
FormatVersion_Mod100(v) ==
    <<v \div 1000, (v % 100) \div 10>>

\* "{}.{}", driver_ver / 1000, (driver_ver % 1000) / 10
FormatVersion(v) ==
    <<v \div 1000, (v % 1000) \div 10>>

YesNo(x) ==
    IF x # 0 THEN "Yes" ELSE "No"

\* {:.0} of n/d as the float formatter prints it: to nearest, ties to even.
RoundDiv(n, d) ==
    LET q == n \div d
        r == n % d
    IN  IF 2 * r > d \/ (2 * r = d /\ q % 2 = 1) THEN q + 1 ELSE q

\* ---- the environment: attached hardware ----------------------------------
\* What the driver would answer for each attribute of an attached device when
\* the query succeeds.  Four kinds of board, repeated by ordinal.
BaseHw ==
    [ name |-> "NVIDIA A100", total_mem |-> 1073741824, major |-> 8, minor |-> 0,
      mp_count |-> 108, clock_rate |-> 1410000, mem_clock |-> 1215000,
      mem_bus_width |-> 5120, l2_cache |-> 41943040,
      max_tex1d |-> 131072, max_tex2d_w |-> 131072, max_tex2d_h |-> 65536,
      max_tex3d_w |-> 16384, max_tex3d_h |-> 16384, max_tex3d_d |-> 16384,
      max_tex1d_layered_w |-> 32768, max_tex1d_layered_l |-> 2048,
      max_tex2d_layered_w |-> 32768, max_tex2d_layered_h |-> 32768,
      max_tex2d_layered_l |-> 2048,
      const_mem |-> 65536, shared_mem |-> 49152, shared_mem_mp |-> 167936,
      regs |-> 65536, warp_size |-> 32, max_threads_mp |-> 2048,
      max_threads_block |-> 1024,
      max_dim_x |-> 1024, max_dim_y |-> 1024, max_dim_z |-> 64,
      max_grid_x |-> 2147483647, max_grid_y |-> 65535, max_grid_z |-> 65535,
      max_pitch |-> 2147483647, tex_align |-> 512,
      gpu_overlap |-> 1, async_engines |-> 3, kernel_timeout |-> 0,
      integrated |-> 0, can_map |-> 1, surface_align |-> 1, ecc |-> 1, tcc |-> 0,
      unified |-> 1, managed |-> 1, preemption |-> 1, coop_launch |-> 1,
      coop_multi |-> 1, pci_domain |-> 0, pci_bus |-> 1, pci_device |-> 0,
      compute_mode |-> 0, island |-> 0 ]

Board(k) ==
    CASE k = 0 -> BaseHw
      [] k = 1 -> [BaseHw EXCEPT !.name = "NVIDIA H100", !.major = 9, !.mp_count = 132,
                                 !.l2_cache = 52428800, !.pci_bus = 2,
                                 !.compute_mode = 3]
      [] k = 2 -> [BaseHw EXCEPT !.name = "GeForce GTX 580", !.major = 2, !.mp_count = 16,
                                 !.total_mem = 1610612736, !.l2_cache = 786432,
                                 !.ecc = 0, !.managed = 0, !.preemption = 0,
                                 !.coop_launch = 0, !.coop_multi = 0,
                                 !.kernel_timeout = 1, !.pci_bus = 3,
                                 !.compute_mode = 2, !.island = 1]
      [] OTHER -> [BaseHw EXCEPT !.name = "Orin", !.minor = 7, !.mp_count = 14,
                                 !.l2_cache = 0, !.integrated = 1, !.ecc = 0,
                                 !.pci_bus = 4, !.compute_mode = 7, !.island = 1]

Fleet(n) ==
    [d \in 1..n |-> Board((d - 1) % 4)]

\* What the driver holds for attribute a of the device with ordinal d.
TrueAttr(d, a) ==
    gpus[d + 1][a]

\* cuDeviceCanAccessPeer's answer when it succeeds: boards of one island
\* reach each other.
TruePeer(d, p) ==
    IF gpus[d + 1].island = gpus[p + 1].island THEN 1 ELSE 0

\* ---- the body of the device loop, statement by statement -----------------
\* Q: one driver query into the local of that name.  P: one println!, with the
\* way its arguments are formatted and the locals it prints.
Q(fn, a) ==
    [op |-> "query", label |-> fn, fmt |-> "", attrs |-> <<a>>]
A(a) ==
    Q("cuDeviceGetAttribute", a)
P(label, fmt, attrs) ==
    [op |-> "print", label |-> label, fmt |-> fmt, attrs |-> attrs]

SectionCode ==
    << Q("cuDeviceGetName", "name"), Q("cuDeviceTotalMem", "total_mem"),
       A("major"), A("minor"),
       P("Device", "device", <<"name">>),
       P("CUDA Driver Version", "driver_version", <<>>),
       P("CUDA Capability Major/Minor version number", "int", <<"major", "minor">>),
       P("Total amount of global memory", "global_mem", <<"total_mem">>),
       A("mp_count"),
       P("Multiprocessors", "multiprocessors", <<"mp_count", "major", "minor">>),
       A("clock_rate"),
       P("GPU Max Clock rate", "clock", <<"clock_rate">>),
       A("mem_clock"),
       P("Memory Clock rate", "mhz", <<"mem_clock">>),
       A("mem_bus_width"),
       P("Memory Bus Width", "int", <<"mem_bus_width">>),
       A("l2_cache"),
       P("L2 Cache Size", "if_positive", <<"l2_cache">>),
       A("max_tex1d"), A("max_tex2d_w"), A("max_tex2d_h"),
       A("max_tex3d_w"), A("max_tex3d_h"), A("max_tex3d_d"),
       P("Maximum Texture Dimension Size (x,y,z)", "int",
         <<"max_tex1d", "max_tex2d_w", "max_tex2d_h",
           "max_tex3d_w", "max_tex3d_h", "max_tex3d_d">>),
       A("max_tex1d_layered_w"), A("max_tex1d_layered_l"),
       A("max_tex2d_layered_w"), A("max_tex2d_layered_h"), A("max_tex2d_layered_l"),
       P("Maximum Layered 1D Texture Size, (num) layers", "int",
         <<"max_tex1d_layered_w", "max_tex1d_layered_l">>),
       P("Maximum Layered 2D Texture Size, (num) layers", "int",
         <<"max_tex2d_layered_w", "max_tex2d_layered_h", "max_tex2d_layered_l">>),
       A("const_mem"),
       P("Total amount of constant memory", "int", <<"const_mem">>),
       A("shared_mem"),
       P("Total amount of shared memory per block", "int", <<"shared_mem">>),
       A("shared_mem_mp"),
       P("Total shared memory per multiprocessor", "int", <<"shared_mem_mp">>),
       A("regs"),
       P("Total number of registers available per block", "int", <<"regs">>),
       A("warp_size"),
       P("Warp size", "int", <<"warp_size">>),
       A("max_threads_mp"),
       P("Maximum number of threads per multiprocessor", "int", <<"max_threads_mp">>),
       A("max_threads_block"),
       P("Maximum number of threads per block", "int", <<"max_threads_block">>),
       A("max_dim_x"), A("max_dim_y"), A("max_dim_z"),
       P("Max dimension size of a thread block (x,y,z)", "int",
         <<"max_dim_x", "max_dim_y", "max_dim_z">>),
       A("max_grid_x"), A("max_grid_y"), A("max_grid_z"),
       P("Max dimension size of a grid size    (x,y,z)", "int",
         <<"max_grid_x", "max_grid_y", "max_grid_z">>),
       A("max_pitch"),
       P("Maximum memory pitch", "int", <<"max_pitch">>),
       A("tex_align"),
       P("Texture alignment", "int", <<"tex_align">>),
       A("gpu_overlap"), A("async_engines"),
       P("Concurrent copy and kernel execution", "yesno_int",
         <<"gpu_overlap", "async_engines">>),
       A("kernel_timeout"),
       P("Run time limit on kernels", "yesno", <<"kernel_timeout">>),
       A("integrated"),
       P("Integrated GPU sharing Host Memory", "yesno", <<"integrated">>),
       A("can_map"),
       P("Support host page-locked memory mapping", "yesno", <<"can_map">>),
       A("surface_align"),
       P("Alignment requirement for Surfaces", "yesno", <<"surface_align">>),
       A("ecc"),
       P("Device has ECC support", "enabled", <<"ecc">>) >>
    \o (IF TargetWindows
        THEN << A("tcc"),
                P("CUDA Device Driver Mode (TCC or WDDM)", "tcc", <<"tcc">>) >>
        ELSE << >>)
    \o
    << A("unified"),
       P("Device supports Unified Addressing (UVA)", "yesno", <<"unified">>),
       A("managed"),
       P("Device supports Managed Memory", "yesno", <<"managed">>),
       A("preemption"),
       P("Device supports Compute Preemption", "yesno", <<"preemption">>),
       A("coop_launch"),
       P("Supports Cooperative Kernel Launch", "yesno", <<"coop_launch">>),
       A("coop_multi"),
       P("Supports MultiDevice Co-op Kernel Launch", "yesno", <<"coop_multi">>),
       A("pci_domain"), A("pci_bus"), A("pci_device"),
       P("Device PCI Domain ID / Bus ID / location ID", "int",
         <<"pci_domain", "pci_bus", "pci_device">>),
       A("compute_mode"),
       P("Compute Mode", "text", <<>>),
       P("Compute Mode value", "compute_mode", <<"compute_mode">>),
       P("", "text", <<>>) >>

\* The locals the loop body fills by a query.
SectionQueries ==
    {SectionCode[k].attrs[1] : k \in {n \in 1..Len(SectionCode) : SectionCode[n].op = "query"}}

\* What the driver does for one query of the section: F are the queries of
\* this device that fail.
DriverQuery(d, a, F) ==
    IF a \in F THEN Err ELSE Ok(TrueAttr(d, a))

\* The value the local ends up with: unwrap_or_else(|_| "Unknown") for the
\* name, unwrap_or(0) for the memory, attr() for the integer attributes.
Local(d, a, F) ==
    IF a = "name"
    THEN (IF DriverQuery(d, a, F).ok THEN DriverQuery(d, a, F).val ELSE "Unknown")
    ELSE attr(DriverQuery(d, a, F))

\* One println! of the loop body: the line it prints, or nothing.
Render(st, n, d, F, ver) ==
    CASE st.fmt = "device" -> <<OutEv(st.label, <<n, Local(d, "name", F)>>)>>
      [] st.fmt = "driver_version" -> <<OutEv(st.label, FormatVersion(ver))>>
      [] st.fmt = "int" ->
            <<OutEv(st.label, [k \in 1..Len(st.attrs) |-> Local(d, st.attrs[k], F)])>>
      [] st.fmt = "global_mem" ->
            <<OutEv(st.label, <<RoundDiv(Local(d, "total_mem", F), 1024 * 1024), Local(d, "total_mem", F)>>)>>
      [] st.fmt = "multiprocessors" ->
            LET cores_per_mp == sm_to_cores(Local(d, "major", F), Local(d, "minor", F))
            IN  IF cores_per_mp.some
                THEN <<OutEv(st.label, <<Local(d, "mp_count", F), cores_per_mp.val,
                                         Local(d, "mp_count", F) * cores_per_mp.val>>)>>
                ELSE <<OutEv(st.label, <<Local(d, "mp_count", F), "unknown CUDA Cores/MP for SM",
                                         Local(d, "major", F), Local(d, "minor", F)>>)>>
      [] st.fmt = "clock" ->
            <<OutEv(st.label, <<RoundDiv(Local(d, "clock_rate", F), 1000),
                                RoundDiv(Local(d, "clock_rate", F), 10000)>>)>>
      [] st.fmt = "mhz" -> <<OutEv(st.label, <<RoundDiv(Local(d, "mem_clock", F), 1000)>>)>>
      [] st.fmt = "if_positive" ->
            IF Local(d, st.attrs[1], F) > 0 THEN <<OutEv(st.label, <<Local(d, st.attrs[1], F)>>)>> ELSE <<>>
      [] st.fmt = "yesno" -> <<OutEv(st.label, <<YesNo(Local(d, st.attrs[1], F))>>)>>
      [] st.fmt = "yesno_int" ->
            <<OutEv(st.label, <<YesNo(Local(d, st.attrs[1], F)), Local(d, st.attrs[2], F)>>)>>
      [] st.fmt = "enabled" ->
            <<OutEv(st.label, <<IF Local(d, "ecc", F) # 0 THEN "Enabled" ELSE "Disabled">>)>>
      [] st.fmt = "tcc" ->
            <<OutEv(st.label, <<IF Local(d, "tcc", F) # 0 THEN "TCC (Tesla Compute Cluster Driver)"
                                ELSE "WDDM (Windows Display Driver Model)">>)>>
      [] st.fmt = "compute_mode" ->
            <<OutEv(st.label, <<compute_mode_str(Local(d, "compute_mode", F))>>)>>
      [] OTHER -> <<OutEv(st.label, <<>>)>>

\* Everything one iteration does after it has the handle of device d, printed
\* under index n: the queries and the lines, in the order of the code.
Section(n, d, F, ver) ==
    LET step(st) ==
            IF st.op = "query"
            THEN <<CallEv(st.label, <<d, st.attrs[1]>>, DriverQuery(d, st.attrs[1], F).ok,
                          IF DriverQuery(d, st.attrs[1], F).ok
                          THEN <<DriverQuery(d, st.attrs[1], F).val>> ELSE <<>>)>>
            ELSE Render(st, n, d, F, ver)
    IN  Concat([k \in 1..Len(SectionCode) |-> step(SectionCode[k])])

\* ---- the peer-access matrix ----------------------------------------------
\* What the driver does for the query of cell (r, c); F are the cells whose
\* query fails.
PeerQuery(devs, r, c, F) ==
    IF <<r, c>> \in F THEN Err ELSE Ok(TruePeer(devs[r + 1], devs[c + 1]))

\* The cells the inner loop asks the driver about.
PeerCells(devs) ==
    {<<r, c>> \in (0..Len(devs) - 1) \X (0..Len(devs) - 1) : r # c}

\* One pass of the outer loop: the queries of row r, then the line.
MatrixRow(devs, r, F) ==
    LET n == Len(devs)
        call(c) ==
            IF r = c THEN <<>>
            ELSE <<CallEv("cuDeviceCanAccessPeer", <<devs[r + 1], devs[c + 1]>>,
                          PeerQuery(devs, r, c, F).ok,
                          IF PeerQuery(devs, r, c, F).ok
                          THEN <<PeerQuery(devs, r, c, F).val>> ELSE <<>>)>>
        cell(c) ==
            IF r = c THEN "Yes"
            ELSE IF can_access_peer(PeerQuery(devs, r, c, F)) THEN "Yes" ELSE "No"
    IN  Concat([k \in 1..n |-> call(k - 1)])
        \o <<OutEv("row", <<r>> \o [k \in 1..n |-> cell(k - 1)])>>

Matrix(devs, F) ==
    LET n == Len(devs)
    IN  << OutEv(MatrixTitle, <<>>),
           OutEv("D\\D", [k \in 1..n |-> k - 1]) >>
        \o Concat([k \in 1..n |-> MatrixRow(devs, k - 1, F)])
        \o <<OutEv("", <<>>)>>

\* ---- main ----------------------------------------------------------------
Exit(code) ==
    /\ exit_status' = <<code>>
    /\ pc' = "exited"

\* cuda::init(), and the exit when it fails
DriverInit ==
    /\ pc = "init"
    /\ \/ /\ trace' = Append(trace, CallEv("cuInit", <<>>, TRUE, <<>>))
          /\ pc' = "driver_version"
          /\ UNCHANGED <<budget, exit_status>>
       \/ /\ budget > 0
          /\ budget' = budget - 1
          /\ trace' = trace \o << CallEv("cuInit", <<>>, FALSE, <<>>),
                                  ErrEv("Failed to initialize CUDA driver", <<>>) >>
          /\ Exit(1)
    /\ UNCHANGED <<gpus, true_ver, driver_ver, dev_count, i, devices>>

\* let driver_ver = driver_version().unwrap_or(0)
QueryDriverVersion ==
    /\ pc = "driver_version"
    /\ \E r \in {Ok(true_ver)} \cup (IF budget > 0 THEN {Err} ELSE {}) :
          /\ budget' = (IF r.ok THEN budget ELSE budget - 1)
          /\ trace' = Append(trace, CallEv("cuDriverGetVersion", <<>>, r.ok,
                                           IF r.ok THEN <<r.val>> ELSE <<>>))
          /\ driver_ver' = (IF driver_version(r).ok THEN driver_version(r).val ELSE 0)
    /\ pc' = "get_count"
    /\ UNCHANGED <<gpus, true_ver, exit_status, dev_count, i, devices>>

\* The error arm made unwrap_or(0): no exit, the count taken as 0.
GetCount_UnwrapOrZero ==
    /\ pc = "get_count"
    /\ \/ /\ trace' = Append(trace, CallEv("cuDeviceGetCount", <<>>, TRUE, <<Len(gpus)>>))
          /\ dev_count' = Len(gpus)
          /\ UNCHANGED budget
       \/ /\ budget > 0
          /\ budget' = budget - 1
          /\ trace' = Append(trace, CallEv("cuDeviceGetCount", <<>>, FALSE, <<>>))
          /\ dev_count' = 0
    /\ pc' = "check_count"
    /\ UNCHANGED <<gpus, true_ver, exit_status, driver_ver, i, devices>>

\* let dev_count = match cuda::device::get_count() { ... }
GetCount ==
    /\ pc = "get_count"
    /\ \/ /\ trace' = Append(trace, CallEv("cuDeviceGetCount", <<>>, TRUE, <<Len(gpus)>>))
          /\ dev_count' = Len(gpus)
          /\ pc' = "check_count"
          /\ UNCHANGED <<budget, exit_status>>
       \/ /\ budget > 0
          /\ budget' = budget - 1
          /\ trace' = trace \o << CallEv("cuDeviceGetCount", <<>>, FALSE, <<>>),
                                  ErrEv("Failed to get device count", <<>>) >>
          /\ Exit(1)
          /\ UNCHANGED dev_count
    /\ UNCHANGED <<gpus, true_ver, driver_ver, i, devices>>

\* The exit(0) left out: the message, then the rest of main.
NoDevices_NoExit ==
    /\ pc = "check_count"
    /\ dev_count = 0
    /\ trace' = Append(trace, OutEv(NoDevicesLabel, <<>>))
    /\ pc' = "matrix"
    /\ UNCHANGED <<gpus, true_ver, budget, exit_status, driver_ver, dev_count, i, devices>>

\* if dev_count == 0 { println!(...); exit(0) }
NoDevices ==
    /\ pc = "check_count"
    /\ dev_count = 0
    /\ trace' = Append(trace, OutEv(NoDevicesLabel, <<>>))
    /\ Exit(0)
    /\ UNCHANGED <<gpus, true_ver, budget, driver_ver, dev_count, i, devices>>

\* println!("Detected {} CUDA Capable device(s)\n", dev_count); devices = Vec::new()
PrintDetected ==
    /\ pc = "check_count"
    /\ dev_count # 0
    /\ trace' = trace \o << OutEv(DetectedLabel, <<dev_count>>),
                            OutEv("", <<>>) >>
    /\ devices' = <<>>
    /\ i' = 0
    /\ pc' = (IF 0 < dev_count THEN "loop" ELSE "matrix")
    /\ UNCHANGED <<gpus, true_ver, budget, exit_status, driver_ver, dev_count>>

\* `break` in place of `continue` when the handle cannot be had.
DeviceIteration_Break ==
    /\ pc = "loop"
    /\ i < dev_count
    /\ \/ /\ budget > 0
          /\ budget' = budget - 1
          /\ trace' = trace \o << CallEv("cuDeviceGet", <<i>>, FALSE, <<>>),
                                  ErrEv("Failed to get device", <<i>>) >>
          /\ pc' = "matrix"
          /\ UNCHANGED devices
       \/ /\ \E F \in FaultSets(SectionQueries, budget) :
                LET dev == i
                IN  /\ budget' = budget - Cardinality(F)
                    /\ devices' = Append(devices, dev)
                    /\ trace' = trace \o <<CallEv("cuDeviceGet", <<i>>, TRUE, <<dev>>)>>
                                      \o Section(i, dev, F, driver_ver)
          /\ pc' = (IF i + 1 < dev_count THEN "loop" ELSE "matrix")
    /\ i' = i + 1
    /\ UNCHANGED <<gpus, true_ver, exit_status, driver_ver, dev_count>>

\* One iteration of `for i in 0..dev_count`.
DeviceIteration ==
    /\ pc = "loop"
    /\ i < dev_count
    /\ \/ /\ budget > 0
          /\ budget' = budget - 1
          /\ trace' = trace \o << CallEv("cuDeviceGet", <<i>>, FALSE, <<>>),
                                  ErrEv("Failed to get device", <<i>>) >>
          /\ UNCHANGED devices
       \/ \E F \in FaultSets(SectionQueries, budget) :
             LET dev == i
             IN  /\ budget' = budget - Cardinality(F)
                 /\ devices' = Append(devices, dev)
                 /\ trace' = trace \o <<CallEv("cuDeviceGet", <<i>>, TRUE, <<dev>>)>>
                                   \o Section(i, dev, F, driver_ver)
    /\ i' = i + 1
    /\ pc' = (IF i + 1 < dev_count THEN "loop" ELSE "matrix")
    /\ UNCHANGED <<gpus, true_ver, exit_status, driver_ver, dev_count>>

\* The guard written devices.len() > 0.
PeerMatrix_AnyDevice ==
    /\ pc = "matrix"
    /\ \/ /\ Len(devices) > 0
          /\ \E F \in FaultSets(PeerCells(devices), budget) :
                /\ budget' = budget - Cardinality(F)
                /\ trace' = trace \o Matrix(devices, F)
       \/ /\ ~(Len(devices) > 0)
          /\ UNCHANGED <<budget, trace>>
    /\ pc' = "finish"
    /\ UNCHANGED <<gpus, true_ver, exit_status, driver_ver, dev_count, i, devices>>

\* if devices.len() > 1 { ... }
PeerMatrix ==
    /\ pc = "matrix"
    /\ \/ /\ Len(devices) > 1
          /\ \E F \in FaultSets(PeerCells(devices), budget) :
                /\ budget' = budget - Cardinality(F)
                /\ trace' = trace \o Matrix(devices, F)
       \/ /\ ~(Len(devices) > 1)
          /\ UNCHANGED <<budget, trace>>
    /\ pc' = "finish"
    /\ UNCHANGED <<gpus, true_ver, exit_status, driver_ver, dev_count, i, devices>>

\* The two last println! swapped.
Finish_PassFirst ==
    /\ pc = "finish"
    /\ trace' = trace \o << OutEv(PassLabel, <<>>),
                            OutEv(SummaryLabel, FormatVersion(driver_ver)),
                            OutEv("", <<>>) >>
    /\ Exit(0)
    /\ UNCHANGED <<gpus, true_ver, budget, driver_ver, dev_count, i, devices>>

\* The summary line, "Result = PASS", and the return from main.
Finish ==
    /\ pc = "finish"
    /\ trace' = trace \o << OutEv(SummaryLabel, FormatVersion(driver_ver)),
                            OutEv("", <<>>),
                            OutEv(PassLabel, <<>>) >>
    /\ Exit(0)
    /\ UNCHANGED <<gpus, true_ver, budget, driver_ver, dev_count, i, devices>>

\* ---- specification ---------------------------------------------------------
Start ==
    /\ pc = "init"
    /\ exit_status = Running
    /\ driver_ver = 0
    /\ dev_count = 0
    /\ i = 0
    /\ devices = <<>>
    /\ trace = <<>>

\* Real driver versions beside the swept range.
Versions ==
    (0..MaxVersion) \cup {11080, 12020, 12090, 13000}

\* Any of the fleets, with a driver that may fail; one board of any compute
\* capability; one board under any driver version.
Init ==
    /\ Start
    /\ \/ /\ gpus \in {Fleet(n) : n \in 0..MaxDevices}
          /\ true_ver = 12020
          /\ budget = (IF Len(gpus) + MaxFaults <= MaxScenario
                       THEN MaxFaults ELSE MaxScenario - Len(gpus))
       \/ /\ gpus \in {<<[BaseHw EXCEPT !.major = mj, !.minor = mn]>> :
                          mj \in 0..MaxMajor, mn \in 0..MaxMinor}
          /\ true_ver = 12020
          /\ budget = 0
       \/ /\ gpus = Fleet(1)
          /\ true_ver \in Versions
          /\ budget = 0

Next ==
    \/ DriverInit
    \/ QueryDriverVersion
    \/ GetCount
    \/ NoDevices
    \/ PrintDetected
    \/ DeviceIteration
    \/ PeerMatrix
    \/ Finish

Spec == Init /\ [][Next]_vars

\* ---- reading the trace -----------------------------------------------------
IsOut(e) == e.ev = "out"
IsErr(e) == e.ev = "err"
IsCall(e) == e.ev = "call"

Stdout == SelectSeq(trace, IsOut)
Stderr == SelectSeq(trace, IsErr)

CallsOf(fn) ==
    SelectSeq(trace, LAMBDA e : IsCall(e) /\ e.what = fn)
LinesOf(label) ==
    SelectSeq(trace, LAMBDA e : IsOut(e) /\ e.what = label)

\* The driver entry points that ask about one device.
DeviceFns == {"cuDeviceGetName", "cuDeviceTotalMem", "cuDeviceGetAttribute"}

\* The lines of the report, all but the "no devices" message.
ReportLines ==
    SelectSeq(trace, LAMBDA e : IsOut(e) /\ e.what # NoDevicesLabel)

\* The run got past the device loop.
LoopDone == pc \in {"matrix", "finish"} \/ (pc = "exited" /\ LinesOf(DetectedLabel) # <<>>)
\* The run got past the matrix.
MatrixDone == pc = "finish" \/ (pc = "exited" /\ LinesOf(DetectedLabel) # <<>>)
\* The run returned from main after the report.
ReportDone == pc = "exited" /\ LinesOf(DetectedLabel) # <<>>

\* The handles the driver gave out, in the order it gave them.
Handles ==
    SelectSeq(trace, LAMBDA e : IsCall(e) /\ e.what = "cuDeviceGet" /\ e.ok)
FailedHandles ==
    SelectSeq(trace, LAMBDA e : IsCall(e) /\ e.what = "cuDeviceGet" /\ ~e.ok)

\* ---- C1 --------------------------------------------------------------------
FatalCalls ==
    SelectSeq(trace, LAMBDA e : IsCall(e) /\ ~e.ok
                                /\ e.what \in {"cuInit", "cuDeviceGetCount"})

\* C1: when cuInit or cuDeviceGetCount fails the process has exited with
\* status 1, one error is on stderr and nothing at all is on stdout; a run
\* that exits with neither of the two failing exits with status 0.
C1_FatalFailuresExitOne ==
    /\ FatalCalls # <<>> =>
          /\ pc = "exited"
          /\ exit_status = <<1>>
          /\ Stdout = <<>>
          /\ Len(Stderr) = 1
          /\ Stderr[1].what \in {"Failed to initialize CUDA driver",
                                 "Failed to get device count"}
          /\ trace[Len(trace)] = Stderr[1]
    /\ (pc = "exited" /\ FatalCalls = <<>>) => exit_status = <<0>>
    /\ pc # "exited" => exit_status = Running

C1_Witness ==
    /\ pc = "exited"
    /\ exit_status = <<1>>
    /\ CallsOf("cuInit") # <<>> /\ CallsOf("cuInit")[1].ok
    /\ CallsOf("cuDeviceGetCount") # <<>> /\ ~CallsOf("cuDeviceGetCount")[1].ok

\* ---- C2 --------------------------------------------------------------------
ZeroCount ==
    /\ CallsOf("cuDeviceGetCount") # <<>>
    /\ CallsOf("cuDeviceGetCount")[1].ok
    /\ CallsOf("cuDeviceGetCount")[1].vals = <<0>>

\* C2: when the driver reports zero devices, the only line ever printed is
\* the "no devices" message, no handle, attribute or peer query is issued, and
\* the process exits with status 0.
C2_ZeroDevices ==
    ZeroCount =>
        /\ pc \in {"check_count", "exited"}
        /\ pc = "exited" =>
              /\ exit_status = <<0>>
              /\ Stdout = <<OutEv(NoDevicesLabel, <<>>)>>
        /\ ReportLines = <<>>
        /\ Stderr = <<>>
        /\ \A k \in 1..Len(trace) :
              IsCall(trace[k]) =>
                 trace[k].what \in {"cuInit", "cuDriverGetVersion", "cuDeviceGetCount"}

C2_Witness ==
    /\ ZeroCount
    /\ pc = "exited"
    /\ exit_status = <<0>>
    /\ Len(Stdout) = 1

\* ---- C3 --------------------------------------------------------------------
MatrixRows == LinesOf("row")

\* The matrix is printed, n by n, with "Yes" on the diagonal.
MatrixIs(n) ==
    LET rows == MatrixRows
        head == LinesOf("D\\D")
    IN  /\ Len(LinesOf(MatrixTitle)) = 1
        /\ Len(head) = 1
        /\ head[1].vals = [k \in 1..n |-> k - 1]
        /\ Len(rows) = n
        /\ \A k \in 1..n :
              /\ Len(rows[k].vals) = n + 1
              /\ rows[k].vals[1] = k - 1
              /\ rows[k].vals[k + 1] = "Yes"

NoMatrix ==
    /\ LinesOf(MatrixTitle) = <<>>
    /\ LinesOf("D\\D") = <<>>
    /\ MatrixRows = <<>>
    /\ CallsOf("cuDeviceCanAccessPeer") = <<>>

\* C3 as stated: N is the device count the driver reports.
C3_Original ==
    MatrixDone => IF dev_count > 1 THEN MatrixIs(dev_count) ELSE NoMatrix

\* C3, amended: with N the number of devices whose handle was obtained, the
\* matrix has exactly N rows and N columns with "Yes" on the diagonal when
\* N > 1, and neither header nor rows are printed when N <= 1; before the
\* loop is over no matrix line is printed at all.
C3_MatrixOverHandles ==
    LET n == Len(Handles)
    IN  /\ MatrixDone => IF n > 1 THEN MatrixIs(n) ELSE NoMatrix
        /\ ~MatrixDone => NoMatrix

C3_Witness ==
    /\ ReportDone
    /\ dev_count = 3
    /\ Len(Handles) = 2
    /\ Len(MatrixRows) = 2

\* ---- the section of one device, read back from the trace ------------------
\* Where in the trace the driver gave out a handle.
HandleIdx ==
    {k \in 1..Len(trace) :
        IsCall(trace[k]) /\ trace[k].what = "cuDeviceGet" /\ trace[k].ok}

\* The first event after s that belongs to the next iteration or to what
\* follows the loop.
SectionEnd(s) ==
    LET later == {k \in (s + 1)..Len(trace) :
                     trace[k].what \in {"cuDeviceGet", MatrixTitle, SummaryLabel}}
    IN  IF later = {} THEN Len(trace) + 1
        ELSE CHOOSE k \in later : \A j \in later : k <= j

SectionEvents(s) ==
    SubSeq(trace, s + 1, SectionEnd(s) - 1)

Labels(evs) ==
    LET outs == SelectSeq(evs, IsOut)
    IN  [k \in 1..Len(outs) |-> outs[k].what]

\* The value a local of the section got: what the query returned, or 0.
QueryVal(evs, a) ==
    LET c == SelectSeq(evs, LAMBDA e : IsCall(e) /\ e.args[2] = a)
    IN  IF c[1].ok THEN c[1].vals[1] ELSE 0

LineOf(evs, label) ==
    SelectSeq(evs, LAMBDA e : IsOut(e) /\ e.what = label)

\* ---- C4 --------------------------------------------------------------------
\* C4 as stated: for every device whose handle was obtained, whichever of its
\* queries fail, the lines printed for it are, in set and order, the lines
\* printed for it when no query fails, and the run does not abort.
C4_Original ==
    /\ \A s \in HandleIdx :
          Labels(SectionEvents(s))
             = Labels(Section(trace[s].args[1], trace[s].vals[1], {}, driver_ver))
    /\ (pc = "exited" /\ exit_status = <<1>>) => FatalCalls # <<>>

\* ---- C5 --------------------------------------------------------------------
Doc192 == {<<3, 0>>, <<3, 2>>, <<3, 5>>, <<3, 7>>}
Doc64 == {<<6, 0>>, <<7, 0>>, <<7, 2>>, <<7, 5>>, <<8, 0>>}
Doc128 ==
    {<<5, 0>>, <<5, 2>>, <<5, 3>>, <<6, 1>>, <<6, 2>>, <<8, 6>>, <<8, 7>>, <<8, 9>>,
     <<9, 0>>, <<10, 0>>, <<10, 1>>, <<10, 3>>, <<11, 0>>, <<12, 0>>, <<12, 1>>}

UnknownText == "unknown CUDA Cores/MP for SM"

\* C5: in every device section the capability printed is the pair the two
\* capability queries gave (0 for one that failed); for a pair of the
\* documented table the multiprocessor line carries the documented constant
\* and the total, multiprocessor count times the constant; for every other
\* pair, (0,0) included, it carries the count and no total.
C5_CoresLine ==
    \A s \in HandleIdx :
        LET evs == SectionEvents(s)
            mj == QueryVal(evs, "major")
            mn == QueryVal(evs, "minor")
            mp == QueryVal(evs, "mp_count")
            cap == LineOf(evs, "CUDA Capability Major/Minor version number")
            mpl == LineOf(evs, "Multiprocessors")
            doc == IF <<mj, mn>> \in Doc192 THEN 192
                   ELSE IF <<mj, mn>> \in Doc128 THEN 128
                   ELSE IF <<mj, mn>> \in Doc64 THEN 64 ELSE 0
        IN  /\ Len(cap) = 1 /\ cap[1].vals = <<mj, mn>>
            /\ Len(mpl) = 1
            /\ IF doc # 0
               THEN /\ Len(mpl[1].vals) = 3
                    /\ mpl[1].vals = <<mp, doc, mp * doc>>
               ELSE /\ Len(mpl[1].vals) = 4
                    /\ mpl[1].vals = <<mp, UnknownText, mj, mn>>

\* A board of a known capability whose major query failed: printed as 0.0,
\* without a total.
C5_Witness ==
    /\ ReportDone
    /\ \E s \in HandleIdx :
          LET evs == SectionEvents(s)
              q == SelectSeq(evs, LAMBDA e : IsCall(e) /\ e.args[2] = "major")
          IN  /\ ~q[1].ok
              /\ TrueAttr(trace[s].vals[1], "major") = 8
              /\ LineOf(evs, "Multiprocessors")[1].vals = <<108, UnknownText, 0, 0>>

\* ---- C6 --------------------------------------------------------------------
\* What the version query gave main: the version, or 0 when it failed.
ReportedVersion ==
    LET q == CallsOf("cuDriverGetVersion")
    IN  IF q[1].ok THEN q[1].vals[1] ELSE 0

VersionLines ==
    SelectSeq(trace, LAMBDA e : IsOut(e) /\ e.what \in {"CUDA Driver Version", SummaryLabel})

\* <<a, b>> is V/1000 and (V%1000)/10 in integer division.
IsVersionOf(a, b, V) ==
    /\ a >= 0 /\ b >= 0 /\ b <= 99
    /\ a * 1000 + b * 10 <= V
    /\ V <= a * 1000 + b * 10 + 9

\* C6: every 'CUDA Driver Version' line and the summary line print the
\* version V the driver reported as V/1000 "." (V%1000)/10 (12020 as 12.2),
\* all alike; a failed version query prints 0.0 and main goes on to the
\* device count.
C6_VersionFormat ==
    LET vl == VersionLines
        q == CallsOf("cuDriverGetVersion")
        V == ReportedVersion
    IN  /\ \A k \in 1..Len(vl) :
              /\ Len(vl[k].vals) = 2
              /\ IsVersionOf(vl[k].vals[1], vl[k].vals[2], V)
              /\ V = 12020 => vl[k].vals = <<12, 2>>
              /\ ~q[1].ok => vl[k].vals = <<0, 0>>
        /\ (q # <<>> /\ q[1].ok) => V = true_ver
        /\ (trace # <<>> /\ trace[Len(trace)].what = "cuDriverGetVersion") =>
              /\ pc = "get_count"
              /\ exit_status = Running
        /\ ReportDone => Len(vl) = Len(Handles) + 1

C6_Witness ==
    /\ ReportDone
    /\ ReportedVersion = 1999
    /\ Len(VersionLines) = 2
    /\ VersionLines[1].vals = <<1, 99>>
    /\ VersionLines[2].vals = <<1, 99>>

\* ---- C7 --------------------------------------------------------------------
PeerCalls == CallsOf("cuDeviceCanAccessPeer")

\* C7: with the device of row r and the device of column c being the r-th and
\* c-th handle obtained, the driver is asked exactly once about every
\* off-diagonal cell and never about a diagonal one; the cell is "Yes" exactly
\* when that query succeeded with a non-zero answer; and whichever queries
\* fail, every row is printed and the run ends with status 0.
C7_PeerCells ==
    MatrixDone =>
        LET calls == PeerCalls
            rows == MatrixRows
            n == Len(rows)
        IN  /\ \A k \in 1..Len(calls) : calls[k].args[1] # calls[k].args[2]
            /\ Len(calls) = n * (n - 1)
            /\ n \in {0, Len(devices)}
            /\ \A r \in 1..n : \A c \in 1..n :
                  r # c =>
                    LET q == SelectSeq(calls, LAMBDA e : e.args = <<devices[r], devices[c]>>)
                    IN  /\ Len(q) = 1
                        /\ rows[r].vals[c + 1] \in {"Yes", "No"}
                        /\ rows[r].vals[c + 1] = "Yes" <=> (q[1].ok /\ q[1].vals[1] # 0)
            /\ pc = "exited" => exit_status = <<0>>

\* A failed query between two boards that do reach each other: "No" in that
\* cell, "Yes" in the mirrored one.
C7_Witness ==
    /\ ReportDone
    /\ Len(MatrixRows) = 3
    /\ \E k \in 1..Len(PeerCalls) :
          /\ ~PeerCalls[k].ok
          /\ PeerCalls[k].args = <<0, 1>>
    /\ MatrixRows[1].vals = <<0, "Yes", "No", "No">>
    /\ MatrixRows[2].vals = <<1, "Yes", "Yes", "No">>

\* ---- C8 --------------------------------------------------------------------
\* The step of the procedure an event belongs to.
Phase(e) ==
    IF IsCall(e)
    THEN CASE e.what = "cuInit" -> 1
           [] e.what = "cuDriverGetVersion" -> 2
           [] e.what = "cuDeviceGetCount" -> 3
           [] e.what = "cuDeviceCanAccessPeer" -> 6
           [] OTHER -> 5
    ELSE IF IsErr(e)
    THEN (IF e.what = "Failed to get device" THEN 5 ELSE 9)
    ELSE CASE e.what \in {DetectedLabel, NoDevicesLabel} -> 4
           [] e.what \in {MatrixTitle, "D\\D", "row"} -> 6
           [] e.what = SummaryLabel -> 7
           [] e.what = PassLabel -> 8
           [] OTHER -> 5

NonBlank == SelectSeq(trace, LAMBDA e : e.what # "")

DeviceLines == LinesOf("Device")

\* C8: the events of a run come in the order init, version query, count
\* query, 'Detected' header, device sections by increasing index, matrix,
\* summary, 'Result = PASS'; each of those but the sections and the matrix
\* happens once; every driver query comes after a successful init; and a run
\* that returns from main ends with the summary followed by 'Result = PASS'.
C8_FixedOrder ==
    LET nb == NonBlank
        ph == [k \in 1..Len(nb) |-> Phase(nb[k])]
        dl == DeviceLines
    IN  /\ \A k \in 1..(Len(ph) - 1) :
              \/ ph[k] < ph[k + 1]
              \/ ph[k] = ph[k + 1] /\ ph[k] \in {5, 6}
        /\ trace # <<>> => trace[1].what = "cuInit"
        /\ Len(trace) > 1 => (trace[1].ok \/ IsErr(trace[2]))
        /\ \A k \in 1..(Len(dl) - 1) : dl[k].vals[1] < dl[k + 1].vals[1]
        /\ LinesOf(DetectedLabel) # <<>> =>
              /\ Len(trace) >= 4
              /\ trace[2].what = "cuDriverGetVersion"
              /\ trace[3].what = "cuDeviceGetCount"
              /\ trace[4] = OutEv(DetectedLabel, <<dev_count>>)
        /\ ReportDone =>
              /\ Len(LinesOf(PassLabel)) = 1
              /\ Len(LinesOf(SummaryLabel)) = 1
              /\ trace[Len(trace)] = OutEv(PassLabel, <<>>)
              /\ nb[Len(nb) - 1].what = SummaryLabel
        /\ ~ReportDone => LinesOf(PassLabel) = <<>>

C8_Witness ==
    /\ ReportDone
    /\ Len(DeviceLines) = 3
    /\ Len(MatrixRows) = 3
    /\ Len(FailedHandles) = 0

\* ---- C9 --------------------------------------------------------------------
\* C9: a failed handle query for index d is followed by its error on stderr;
\* no section is printed for d and nothing else is asked about d; once the
\* loop is over every index below the device count was asked for exactly
\* once; the sections printed are as many as the handles obtained, at most
\* the count in the header; and the run ends with the summary,
\* 'Result = PASS' and status 0.
C9_HandleFailureSkipsDevice ==
    LET failed == FailedHandles
        got == Handles
        dl == DeviceLines
        gets == CallsOf("cuDeviceGet")
    IN  /\ failed # <<>> =>
              LET calls == PeerCalls
                  asked == SelectSeq(trace, LAMBDA e : IsCall(e) /\ e.what \in DeviceFns)
              IN  \A f \in 1..Len(failed) :
                     LET d == failed[f].args[1]
                     IN  /\ \E k \in 1..(Len(trace) - 1) :
                               /\ trace[k] = failed[f]
                               /\ trace[k + 1] = ErrEv("Failed to get device", <<d>>)
                         /\ \A j \in 1..Len(dl) : dl[j].vals[1] # d
                         /\ \A j \in 1..Len(asked) : asked[j].args[1] # d
                         /\ \A j \in 1..Len(calls) :
                               calls[j].args[1] # d /\ calls[j].args[2] # d
        /\ Len(dl) = Len(got)
        /\ Len(got) = Len(devices)
        /\ Len(got) + Len(failed) <= dev_count
        /\ LoopDone =>
              /\ Len(gets) = dev_count
              /\ \A k \in 1..dev_count : gets[k].args = <<k - 1>>
        /\ ReportDone =>
              /\ exit_status = <<0>>
              /\ Len(LinesOf(SummaryLabel)) = 1
              /\ trace[Len(trace)] = OutEv(PassLabel, <<>>)

\* Fewer sections than the header announces.
C9_Witness ==
    /\ ReportDone
    /\ LinesOf(DetectedLabel)[1].vals = <<3>>
    /\ Len(FailedHandles) = 1
    /\ Len(DeviceLines) = 2

\* ---- C10 -------------------------------------------------------------------
\* C10 as stated: the device of the matrix row (and column) labelled k is the
\* device of the section headed 'Device k'.
C10_Original ==
    MatrixDone =>
        \A r \in 1..Len(MatrixRows) :
            LET k == MatrixRows[r].vals[1]
            IN  /\ \E j \in 1..Len(DeviceLines) : DeviceLines[j].vals[1] = k
                /\ devices[r] = k
                /\ LinesOf("D\\D")[1].vals[r] = devices[r]

====
